---- MODULE Spec2Model ----
(***************************************************************************)
(* A model of package uuid (src/uuid.go): the 16-byte identifier, its      *)
(* canonical text codec (Format / Parse), the binary and JSON adapters,    *)
(* the generators NewV3, NewV4, NewV5, NewV7 and the accessors Version and *)
(* Time.                                                                   *)
(*                                                                         *)
(* Bytes are the integers 0..255.  A Go array or slice is a sequence;      *)
(* At(s, i) reads it at the zero-based offset i the source uses.           *)
(***************************************************************************)
EXTENDS Integers, Sequences, FiniteSets, TLC

VARIABLES
    pc,     \* where the calling program is: "idle", "given", "loaded", ...
    op,     \* the operation called last ("" before the first)
    u,      \* the caller's identifier variable (receiver / returned UUID)
    u0,     \* the value u held before the last call
    buf,    \* the caller's byte slice: an input, or the bytes returned last
    enc,    \* the encoding call that returned buf ("" when buf is an input)
    arg,    \* the bytes handed to the last decoding call
    err,    \* the error returned last: "nil", "ErrInvalidUUID", "ErrRand"
    tm,     \* the time.Time returned by the last Time() call
    ok,     \* the bool returned by the last Time() call
    ver,    \* the int returned by the last Version() call
    q,      \* the accessor called on u since the last call: "", "Time", "Version"
    now,    \* the time.Time handed to the last call, if it was NewV7
    rnd,    \* what the last call's read of crypto/rand returned: [want, n, data]
    hin,    \* the namespace and name handed to the last call (NewV3 / NewV5)
    h,      \* the hash.Hash object the last NewV3 / NewV5 call left behind
    saved,  \* an earlier call kept with what it returned: the first NewV3 /
            \* NewV5 call of the run, or the NewV7 call before the last
    hseed,  \* which digest functions md5 and sha1 are (fixed for a run)
    dec,    \* the decoding call that returned u ("" when u was not decoded)
    styp    \* the dynamic type of the src of the last call, if it was Scan

vars == <<pc, op, u, u0, buf, enc, arg, err, tm, ok, ver, q, now, rnd, hin,
          h, saved, hseed, dec, styp>>


----------------------------------------------------------------------------
(* Bytes and slices *)

Byte == 0..255

At(s, i) == s[i + 1]

\* s[lo:hi] of Go: the offsets lo .. hi-1
Slice(s, lo, hi) == [k \in 1..(hi - lo) |-> s[lo + k]]

\* copy(dst[off:], src), for a src that fits
CopyAt(dst, off, src) ==
    [k \in 1..Len(dst) |->
        IF k > off /\ k <= off + Len(src) THEN src[k - off] ELSE dst[k]]

\* a zeroed array of n bytes (var buf [n]byte)
Zeroes(n) == [k \in 1..n |-> 0]

\* type UUID [16]byte
UUID == [1..16 -> Byte]

\* var u UUID
ZeroUUID == Zeroes(16)

\* const dash = '-'
dash == 45

\* the double quote of MarshalJSON / UnmarshalJSON
quote == 34

----------------------------------------------------------------------------
(* encoding/hex, as uuid.go uses it *)

\* the digits in upper case: "0123456789ABCDEF"
hextableUpper ==
    <<48, 49, 50, 51, 52, 53, 54, 55, 56, 57, 65, 66, 67, 68, 69, 70>>

\* hextable = "0123456789abcdef"
hextable == <<48, 49, 50, 51, 52, 53, 54, 55, 56, 57, 97, 98, 99, 100, 101, 102>>

\* hex.Encode writing the low nibble of each byte first
HexEncodeAtLowFirst(dst, off, src) ==
    [k \in 1..Len(dst) |->
        IF k > off /\ k <= off + 2 * Len(src)
        THEN LET j == k - off - 1
                 v == src[(j \div 2) + 1]
             IN  IF j % 2 = 0 THEN At(hextable, v % 16)
                              ELSE At(hextable, v \div 16)
        ELSE dst[k]]

\* hex.Encode(dst[off:], src): two digits per byte, high nibble first
HexEncodeAt(dst, off, src) ==
    [k \in 1..Len(dst) |->
        IF k > off /\ k <= off + 2 * Len(src)
        THEN LET j == k - off - 1     \* zero-based offset into the digits
                 v == src[(j \div 2) + 1]
             IN  IF j % 2 = 0 THEN At(hextable, v \div 16)
                              ELSE At(hextable, v % 16)
        ELSE dst[k]]

\* fromHexChar with the letters a-f valued from 0, the + 10 forgotten
fromHexCharNoTen(c) ==
    IF c >= 48 /\ c <= 57 THEN c - 48
    ELSE IF c >= 97 /\ c <= 102 THEN c - 97
    ELSE IF c >= 65 /\ c <= 70 THEN c - 65 + 10
    ELSE 255

\* fromHexChar: the value of a hex digit, or 255 for any other byte
fromHexChar(c) ==
    IF c >= 48 /\ c <= 57 THEN c - 48
    ELSE IF c >= 97 /\ c <= 102 THEN c - 97 + 10
    ELSE IF c >= 65 /\ c <= 70 THEN c - 65 + 10
    ELSE 255

\* the number of leading pairs of src that are both hex digits
RECURSIVE GoodPairs(_, _)
GoodPairs(src, i) ==
    IF 2 * i + 1 >= Len(src) THEN i
    ELSE IF fromHexChar(At(src, 2 * i)) > 15 THEN i
    ELSE IF fromHexChar(At(src, 2 * i + 1)) > 15 THEN i
    ELSE GoodPairs(src, i + 1)

\* hex.Decode(dst[off:], src): decodes pair by pair into dst and stops at the
\* first byte that is no hex digit; the pairs before it stay written.
\* Returns [dst, n, err].
HexDecodeAt(dst, off, src) ==
    LET n == GoodPairs(src, 0)
        w == [k \in 1..Len(dst) |->
                IF k > off /\ k <= off + n
                THEN LET i == k - off - 1
                     IN  fromHexChar(At(src, 2 * i)) * 16
                           + fromHexChar(At(src, 2 * i + 1))
                ELSE dst[k]]
    IN  IF 2 * n < Len(src) - (Len(src) % 2)
        THEN [dst |-> w, n |-> n, err |-> "InvalidByteError"]
        ELSE IF Len(src) % 2 = 1
        THEN IF fromHexChar(At(src, Len(src) - 1)) > 15
             THEN [dst |-> w, n |-> n, err |-> "InvalidByteError"]
             ELSE [dst |-> w, n |-> n, err |-> "ErrLength"]
        ELSE [dst |-> w, n |-> n, err |-> "nil"]

----------------------------------------------------------------------------
(* Formatting *)

\* func (u UUID) format(buf []byte), writing at buf[off:]
format(b, off, x) ==
    LET b1 == HexEncodeAt(b, off + 0, Slice(x, 0, 4))
        b2 == [b1 EXCEPT ![off + 8 + 1] = dash]
        b3 == HexEncodeAt(b2, off + 9, Slice(x, 4, 6))
        b4 == [b3 EXCEPT ![off + 13 + 1] = dash]
        b5 == HexEncodeAt(b4, off + 14, Slice(x, 6, 8))
        b6 == [b5 EXCEPT ![off + 18 + 1] = dash]
        b7 == HexEncodeAt(b6, off + 19, Slice(x, 8, 10))
        b8 == [b7 EXCEPT ![off + 23 + 1] = dash]
    IN  HexEncodeAt(b8, off + 24, Slice(x, 10, 16))

\* func (u UUID) Format() [36]byte
Format(x) == format(Zeroes(36), 0, x)

\* func (u UUID) Bytes() []byte
Bytes(x) == Format(x)

\* func (u UUID) String() string: the same bytes, as a string
String(x) == Bytes(x)

\* func (u UUID) MarshalBinary() ([]byte, error): a copy of the 16 bytes
MarshalBinary(x) == [val |-> CopyAt(Zeroes(16), 0, x), err |-> "nil"]

----------------------------------------------------------------------------
(* Parsing *)

\* var uuidHexLengths = [5]int{8, 4, 4, 4, 12}
uuidHexLengths == <<8, 4, 4, 4, 12>>

\* the loop of parseFormatted checking only the first three hyphens (idx < 3)
RECURSIVE parseGroupsThreeDashes(_, _, _, _, _)
parseGroupsThreeDashes(b, x, iu, ib, idx) ==
    IF idx = 5 THEN [val |-> x, err |-> "nil"]
    ELSE LET cnt == At(uuidHexLengths, idx)
             d   == HexDecodeAt(x, iu, Slice(b, ib, ib + cnt))
         IN  IF d.err # "nil" THEN [val |-> d.dst, err |-> "ErrInvalidUUID"]
             ELSE IF idx < 3 /\ At(b, ib + cnt) # dash
                  THEN [val |-> d.dst, err |-> "ErrInvalidUUID"]
             ELSE parseGroupsThreeDashes(b, d.dst, iu + d.n, ib + cnt + 1,
                                         idx + 1)

\* the loop of parseFormatted from group idx on: x is u, iu and ib its cursors
RECURSIVE parseGroups(_, _, _, _, _)
parseGroups(b, x, iu, ib, idx) ==
    IF idx = 5 THEN [val |-> x, err |-> "nil"]
    ELSE LET cnt == At(uuidHexLengths, idx)
             d   == HexDecodeAt(x, iu, Slice(b, ib, ib + cnt))
         IN  IF d.err # "nil" THEN [val |-> d.dst, err |-> "ErrInvalidUUID"]
             ELSE IF idx < 4 /\ At(b, ib + cnt) # dash
                  THEN [val |-> d.dst, err |-> "ErrInvalidUUID"]
             ELSE parseGroups(b, d.dst, iu + d.n, ib + cnt + 1, idx + 1)

\* func parseFormatted(b []byte) (UUID, error)
parseFormatted(b) == parseGroups(b, ZeroUUID, 0, 0, 0)

\* Parse with the error of hex.Decode dropped in the 32-byte case
ParseDropsErr(b) ==
    CASE Len(b) = 16 -> [val |-> CopyAt(ZeroUUID, 0, b), err |-> "nil"]
      [] Len(b) = 32 -> [val |-> HexDecodeAt(ZeroUUID, 0, b).dst, err |-> "nil"]
      [] Len(b) = 36 -> parseFormatted(b)
      [] OTHER       -> [val |-> ZeroUUID, err |-> "ErrInvalidUUID"]

\* Parse taking every input of 36 bytes or more as the dashed form
ParseAtLeast36(b) ==
    CASE Len(b) = 16 -> [val |-> CopyAt(ZeroUUID, 0, b), err |-> "nil"]
      [] Len(b) = 32 -> LET d == HexDecodeAt(ZeroUUID, 0, b)
                        IN  IF d.err # "nil"
                            THEN [val |-> d.dst, err |-> "ErrInvalidUUID"]
                            ELSE [val |-> d.dst, err |-> "nil"]
      [] Len(b) >= 36 -> parseFormatted(b)
      [] OTHER       -> [val |-> ZeroUUID, err |-> "ErrInvalidUUID"]

\* Parse returning the error of hex.Decode as it is in the 32-byte case
ParseHexErr(b) ==
    CASE Len(b) = 16 -> [val |-> CopyAt(ZeroUUID, 0, b), err |-> "nil"]
      [] Len(b) = 32 -> LET d == HexDecodeAt(ZeroUUID, 0, b)
                        IN  [val |-> d.dst, err |-> d.err]
      [] Len(b) = 36 -> parseFormatted(b)
      [] OTHER       -> [val |-> ZeroUUID, err |-> "ErrInvalidUUID"]

\* func Parse(b []byte) (UUID, error)
Parse(b) ==
    CASE Len(b) = 16 -> [val |-> CopyAt(ZeroUUID, 0, b), err |-> "nil"]
      [] Len(b) = 32 -> LET d == HexDecodeAt(ZeroUUID, 0, b)
                        IN  IF d.err # "nil"
                            THEN [val |-> d.dst, err |-> "ErrInvalidUUID"]
                            ELSE [val |-> d.dst, err |-> "nil"]
      [] Len(b) = 36 -> parseFormatted(b)
      [] OTHER       -> [val |-> ZeroUUID, err |-> "ErrInvalidUUID"]

\* func ParseString(s string) (UUID, error)
ParseString(s) == Parse(s)

\* UnmarshalBinary refusing bytes whose variant bits are not 10
UnmarshalBinaryChecked(x, data) ==
    IF Len(data) # Len(x) \/ At(data, 8) \div 64 # 2
    THEN [val |-> x, err |-> "ErrInvalidUUID"]
    ELSE [val |-> CopyAt(x, 0, data), err |-> "nil"]

\* func (u *UUID) UnmarshalBinary(data []byte) error; x is *u before the call
UnmarshalBinary(x, data) ==
    IF Len(data) # Len(x) THEN [val |-> x, err |-> "ErrInvalidUUID"]
    ELSE [val |-> CopyAt(x, 0, data), err |-> "nil"]

\* UnmarshalJSON looking at the opening quote only
UnmarshalJSONOpenQuote(x, b) ==
    IF Len(b) # 38 \/ At(b, 0) # quote
    THEN [val |-> x, err |-> "ErrInvalidUUID"]
    ELSE LET r == Parse(Slice(b, 1, 37))
         IN  IF r.err # "nil" THEN [val |-> x, err |-> r.err]
             ELSE [val |-> r.val, err |-> "nil"]

\* func (u *UUID) UnmarshalJSON(b []byte) error; x is *u before the call
UnmarshalJSON(x, b) ==
    IF Len(b) # 38 \/ At(b, 0) # quote \/ At(b, 37) # quote
    THEN [val |-> x, err |-> "ErrInvalidUUID"]
    ELSE LET r == Parse(Slice(b, 1, 37))
         IN  IF r.err # "nil" THEN [val |-> x, err |-> r.err]
             ELSE [val |-> r.val, err |-> "nil"]

\* func (u UUID) MarshalJSON() ([]byte, error): var b [38]byte
MarshalJSON(x) ==
    LET b0 == [Zeroes(38) EXCEPT ![0 + 1] = quote]
        b1 == format(b0, 1, x)
    IN  [val |-> [b1 EXCEPT ![37 + 1] = quote], err |-> "nil"]

\* func (u UUID) MarshalText() ([]byte, error)
MarshalText(x) == [val |-> Bytes(x), err |-> "nil"]

\* UnmarshalText storing whatever Parse returned: *u, err = Parse(text)
UnmarshalTextUnchecked(x, text) == Parse(text)

\* func (u *UUID) UnmarshalText(text []byte) error, *u being x
UnmarshalText(x, text) ==
    LET r == Parse(text)
    IN  IF r.err # "nil" THEN [val |-> x, err |-> r.err]
        ELSE [val |-> r.val, err |-> "nil"]

\* func (u UUID) Value() (driver.Value, error)
Value(x) == [val |-> Bytes(x), err |-> "nil"]

\* the dynamic types of the src handed to Scan: the two it decodes, the nil
\* interface and an integer
SrcTypes == {"[]byte", "string", "nil", "int64"}

\* a src of the type t: the bytes b as a []byte or as a string; the value of
\* another type plays no part
SrcOf(t, b) ==
    [type |-> t, val |-> IF t \in {"[]byte", "string"} THEN b ELSE <<>>]

\* Scan without the default case of its type switch
ScanNoDefault(x, src) ==
    LET r == CASE src.type = "[]byte" -> Parse(src.val)
               [] src.type = "string" -> ParseString(src.val)
               [] OTHER               -> [val |-> ZeroUUID, err |-> "nil"]
    IN  IF r.err # "nil" THEN [val |-> x, err |-> r.err]
        ELSE [val |-> r.val, err |-> "nil"]

\* func (u *UUID) Scan(src interface{}) error, *u being x
Scan(x, src) ==
    LET r == CASE src.type = "[]byte" -> Parse(src.val)
               [] src.type = "string" -> ParseString(src.val)
               [] OTHER               ->
                    [val |-> ZeroUUID, err |-> "ErrInvalidUUID"]
    IN  IF r.err # "nil" THEN [val |-> x, err |-> r.err]
        ELSE [val |-> r.val, err |-> "nil"]

----------------------------------------------------------------------------
(* Bit operations on bytes *)

Bit(x, k) == (x \div (2 ^ k)) % 2

\* a & b
And(a, b) ==
    LET f[k \in 0..8] ==
            IF k = 8 THEN 0 ELSE Bit(a, k) * Bit(b, k) * (2 ^ k) + f[k + 1]
    IN  f[0]

\* a | b
Or(a, b) ==
    LET f[k \in 0..8] ==
            IF k = 8 THEN 0
            ELSE (IF Bit(a, k) + Bit(b, k) > 0 THEN 2 ^ k ELSE 0) + f[k + 1]
    IN  f[0]

\* v << k, kept to the width of a byte
Shl(v, k) == (v * (2 ^ k)) % 256

\* v >> k
Shr(v, k) == v \div (2 ^ k)

----------------------------------------------------------------------------
(* Version, variant and the accessors *)

\* setVersion without the mask: u[6] = u[6] | v<<4
setVersionNoMask(x, v) == [x EXCEPT ![6 + 1] = Or(At(x, 6), Shl(v, 4))]

\* func setVersion(u *UUID, v byte): u[6] = u[6]&0x0f | v<<4
setVersion(x, v) == [x EXCEPT ![6 + 1] = Or(And(At(x, 6), 15), Shl(v, 4))]

\* setVariant keeping the low nibble only: u[8] = u[8]&0x0f | 0x80
setVariantLowNibble(x) == [x EXCEPT ![8 + 1] = Or(And(At(x, 8), 15), 128)]

\* func setVariant(u *UUID): u[8] = u[8]&0x3f | 0x80
setVariant(x) == [x EXCEPT ![8 + 1] = Or(And(At(x, 8), 63), 128)]

\* Version reading the low nibble of byte 6: u[6] & 0x0f
VersionLowNibble(x) == And(At(x, 6), 15)

\* func (u UUID) Version() int
Version(x) == Shr(At(x, 6), 4)

(***************************************************************************)
(* A time.Time is [ms, ns]: ms is what UnixMilli() returns, as the eight   *)
(* bytes of the int64 (two's complement, most significant first: a 64-bit  *)
(* integer does not fit a TLC integer), and ns is the rest of the instant  *)
(* below the millisecond, in nanoseconds.                                  *)
(***************************************************************************)

\* time.UnixMilli(int64(ms))
TimeUnixMilli(ms) == [ms |-> ms, ns |-> 0]

\* time.Time{}: January 1, year 1, 00:00:00 UTC (UnixMilli -62135596800000)
TimeZero == [ms |-> <<255, 255, 199, 124, 237, 211, 40, 0>>, ns |-> 0]

\* byte(ms >> s) for the uint64 ms and a multiple s of 8
ByteShr(ms, s) == At(ms, 7 - (s \div 8))

\* func (u UUID) Time() (time.Time, bool)
Time(x) ==
    IF Version(x) # 7 THEN [tm |-> TimeZero, ok |-> FALSE]
    ELSE LET ms == <<0, 0, At(x, 0), At(x, 1), At(x, 2), At(x, 3), At(x, 4),
                     At(x, 5)>>
         IN  [tm |-> TimeUnixMilli(ms), ok |-> TRUE]

----------------------------------------------------------------------------
(* Generators *)

(***************************************************************************)
(* io.ReadFull(rand.Reader, p) is a read r = [want, n, data]: n bytes of   *)
(* data were read into the front of p, and the error is nil exactly when   *)
(* n = len(p).  The result tells the number of bytes asked for, want, and  *)
(* the generators hand it on with what they return.                        *)
(***************************************************************************)
ReadFull(p, off, r) ==
    [p    |-> CopyAt(p, off, Slice(r.data, 0, r.n)),
     err  |-> IF r.n = Len(p) - off THEN "nil" ELSE "ErrRand",
     want |-> Len(p) - off]

\* NewV4 going on whatever the read returned
NewV4IgnoresErr(r) ==
    LET rd == ReadFull(ZeroUUID, 0, r)
    IN  [val |-> setVariant(setVersion(rd.p, 4)), err |-> "nil",
         want |-> rd.want]

\* func NewV4() (UUID, error), the read of crypto/rand returning r
NewV4(r) ==
    LET rd == ReadFull(ZeroUUID, 0, r)
    IN  IF rd.err # "nil" THEN [val |-> rd.p, err |-> rd.err, want |-> rd.want]
        ELSE [val |-> setVariant(setVersion(rd.p, 4)), err |-> "nil",
              want |-> rd.want]

\* NewV7 with every shift eight bits too far: ms >> 48, ..., ms >> 8
NewV7ShiftedTooFar(t, r) ==
    LET ms == t.ms
        x  == [k \in 1..16 |->
                 CASE k = 1 -> ByteShr(ms, 48)
                   [] k = 2 -> ByteShr(ms, 40)
                   [] k = 3 -> ByteShr(ms, 32)
                   [] k = 4 -> ByteShr(ms, 24)
                   [] k = 5 -> ByteShr(ms, 16)
                   [] k = 6 -> ByteShr(ms, 8)
                   [] OTHER -> 0]
        rd == ReadFull(x, 6, r)
    IN  IF rd.err # "nil" THEN [val |-> rd.p, err |-> rd.err, want |-> rd.want]
        ELSE [val |-> setVariant(setVersion(rd.p, 7)), err |-> "nil",
              want |-> rd.want]

\* NewV7 storing the milliseconds least significant byte first
NewV7LittleEndian(t, r) ==
    LET ms == t.ms
        x  == [k \in 1..16 |->
                 CASE k = 1 -> ByteShr(ms, 0)
                   [] k = 2 -> ByteShr(ms, 8)
                   [] k = 3 -> ByteShr(ms, 16)
                   [] k = 4 -> ByteShr(ms, 24)
                   [] k = 5 -> ByteShr(ms, 32)
                   [] k = 6 -> ByteShr(ms, 40)
                   [] OTHER -> 0]
        rd == ReadFull(x, 6, r)
    IN  IF rd.err # "nil" THEN [val |-> rd.p, err |-> rd.err, want |-> rd.want]
        ELSE [val |-> setVariant(setVersion(rd.p, 7)), err |-> "nil",
              want |-> rd.want]

\* func NewV7(now time.Time) (UUID, error), the read of crypto/rand returning r
NewV7(t, r) ==
    LET ms == t.ms
        x  == [k \in 1..16 |->
                 CASE k = 1 -> ByteShr(ms, 40)
                   [] k = 2 -> ByteShr(ms, 32)
                   [] k = 3 -> ByteShr(ms, 24)
                   [] k = 4 -> ByteShr(ms, 16)
                   [] k = 5 -> ByteShr(ms, 8)
                   [] k = 6 -> ByteShr(ms, 0)
                   [] OTHER -> 0]
        rd == ReadFull(x, 6, r)
    IN  IF rd.err # "nil" THEN [val |-> rd.p, err |-> rd.err, want |-> rd.want]
        ELSE [val |-> setVariant(setVersion(rd.p, 7)), err |-> "nil",
              want |-> rd.want]

(***************************************************************************)
(* A hash.Hash is [alg, data]: the algorithm and the bytes written so far. *)
(* crypto/md5 and crypto/sha1 are outside the package: Sum is a fixed      *)
(* function of the bytes written, of 16 (md5) or 20 (sha1) bytes, and      *)
(* hseed selects which function it is.                                     *)
(***************************************************************************)

\* one md5 object kept by the package and handed out again, never reset
md5Reused == [alg |-> "md5", data |-> h.data]

\* md5.New()
md5New == [alg |-> "md5", data |-> <<>>]

\* sha1.New()
sha1New == [alg |-> "sha1", data |-> <<>>]

\* h.Write(p)
Write(hh, p) == [hh EXCEPT !.data = @ \o p]

RECURSIVE Mix(_, _, _)
Mix(data, i, j) ==
    IF j > Len(data) THEN 0
    ELSE ((i + j) * data[j] + Mix(data, i, j + 1)) % 256

\* h.Sum(nil)
Sum(hh) ==
    LET size == IF hh.alg = "md5" THEN 16 ELSE 20
    IN  [i \in 1..size |->
            (hseed[1] * i + hseed[2] + size + Mix(hh.data, i, 1)) % 256]

\* usingHash writing the name before the namespace
usingHashNameFirst(hh, namespace, name, version) ==
    LET h1 == Write(hh, name)
        h2 == Write(h1, namespace)
        x  == CopyAt(ZeroUUID, 0, Slice(Sum(h2), 0, 16))
    IN  [val |-> setVariant(setVersion(x, version)), h |-> h2]

\* func usingHash(h hash.Hash, namespace UUID, name []byte, version byte) UUID
\* Returns the identifier and the hash object as the call leaves it.
usingHash(hh, namespace, name, version) ==
    LET h1 == Write(hh, namespace)
        h2 == Write(h1, name)
        x  == CopyAt(ZeroUUID, 0, Slice(Sum(h2), 0, 16))
    IN  [val |-> setVariant(setVersion(x, version)), h |-> h2]

\* func NewV3(namespace UUID, name []byte) UUID
NewV3(namespace, name) == usingHash(md5New, namespace, name, 3)

\* func NewV5(namespace UUID, name []byte) UUID
NewV5(namespace, name) == usingHash(sha1New, namespace, name, 5)

----------------------------------------------------------------------------
(* The inputs the calls are tried on *)

\* the longest input of a length that no decoder accepts
MaxLen == 40

\* the longest name handed to NewV3 / NewV5
MaxName == 2

\* 9e754ef6-8dd9-4903-af43-7aea99bfb1fe, the identifier of the tests
BaseUUID ==
    <<158, 117, 78, 246, 141, 217, 73, 3, 175, 67, 122, 234, 153, 191, 177,
    254>>

\* its 36-byte text
BaseText ==
    <<57, 101, 55, 53, 52, 101, 102, 54, 45, 56, 100, 100, 57, 45, 52, 57,
    48, 51, 45, 97, 102, 52, 51, 45, 55, 97, 101, 97, 57, 57, 98, 102, 98,
    49, 102, 101>>

\* its 32 hex digits
BaseHex ==
    <<57, 101, 55, 53, 52, 101, 102, 54, 56, 100, 100, 57, 52, 57, 48, 51,
    97, 102, 52, 51, 55, 97, 101, 97, 57, 57, 98, 102, 98, 49, 102, 101>>

\* its JSON string
BaseJSON == <<quote>> \o BaseText \o <<quote>>

\* s with the byte at offset i replaced by c
Subst(s, i, c) == [s EXCEPT ![i + 1] = c]

\* the first n bytes of s repeated for ever
Cycle(s, n) == [k \in 1..n |-> s[((k - 1) % Len(s)) + 1]]

\* s with the bytes at the offsets i and j exchanged
Swap(s, i, j) == [s EXCEPT ![i + 1] = s[j + 1], ![j + 1] = s[i + 1]]

\* a version 7 identifier of 2024 whose variant bits are 11
OddV7 ==
    <<1, 146, 204, 9, 20, 0, 127, 255, 192, 1, 2, 3, 4, 5, 6, 7>>

\* identifiers: every byte value at every offset, the two extremes, and
\* version 7 identifiers with each timestamp byte at its extremes
UUIDs ==
    {Subst(BaseUUID, i, c) : i \in 0..15, c \in Byte}
        \cup {ZeroUUID, [k \in 1..16 |-> 255]}
        \cup {Subst(OddV7, i, c) : i \in 0..5, c \in {0, 1, 255}}

\* the offsets of the hyphens
DashOffsets == {8, 13, 18, 23}

\* the malformed texts of TestParse36Error and TestParse32:
\* 9e754ef6-8dd9-4903-af437aea99bfb1fef, 9e754gf6-8dd9-4903-af43-7aea99bfb1fe
\* and 9e754ef68dd94903af437aea99bfb1fg
TestErrors ==
    {Slice(BaseText, 0, 23) \o Slice(BaseText, 24, 36) \o <<102>>,
     Subst(BaseText, 5, 103),
     Subst(BaseHex, 31, 103)}

\* the bytes tried at an offset of a text
Chars == Byte

\* byte slices handed to the decoders
Inputs ==
    {Subst(BaseText, i, c) : i \in 0..35, c \in Chars}
        \cup {Subst(BaseHex, i, c) : i \in 0..31, c \in Chars}
        \cup {Subst(BaseJSON, i, c) : i \in 0..37, c \in Chars}
        \cup {Swap(BaseText, i, j) : i \in DashOffsets, j \in 0..35}
        \cup TestErrors
        \cup UUIDs
        \cup {Cycle(s, n) : s \in {BaseText, BaseHex, BaseJSON, ZeroUUID},
                            n \in 0..MaxLen}

\* the values the receiver of a decoding method holds before the call
Receivers == {ZeroUUID, BaseUUID}

\* BaseText in upper case: 9E754EF6-8DD9-4903-AF43-7AEA99BFB1FE
UpperText == [k \in 1..36 |-> IF BaseText[k] \in 97..102 THEN BaseText[k] - 32
                                                          ELSE BaseText[k]]

\* a few identifiers: bytes at their extremes and around the nibbles
FewUUIDs ==
    {Subst(BaseUUID, i, c) : i \in 0..15, c \in {0, 1, 127, 128, 171, 255}}
        \cup {ZeroUUID, [k \in 1..16 |-> 255]}

\* a few bytes: the ends of the digit and letter ranges and their neighbours,
\* the quote, the hyphen and the extremes
FewChars == {0, 34, 45, 47, 48, 57, 58, 64, 65, 70, 71, 96, 97, 102, 103, 255}

\* a few byte slices: the texts of the tests with one byte changed, in upper
\* case, and at every length
FewInputs ==
    {Subst(s, i, c) : s \in {BaseText, UpperText}, i \in 0..35, c \in FewChars}
        \cup {Subst(BaseHex, i, c) : i \in 0..31, c \in FewChars}
        \cup {Subst(BaseJSON, i, c) : i \in 0..37, c \in FewChars}
        \cup {Swap(BaseText, i, j) : i \in DashOffsets, j \in 0..35}
        \cup TestErrors
        \cup FewUUIDs
        \cup {Cycle(s, n) : s \in {BaseText, BaseHex, BaseJSON, ZeroUUID},
                            n \in 0..MaxLen}

\* the namespaces handed to NewV3 / NewV5: the DNS namespace of RFC 4122
\* (6ba7b810-9dad-11d1-80b4-00c04fd430c8) and the identifier of the tests
Namespaces ==
    {<<107, 167, 184, 16, 157, 173, 17, 209, 128, 180, 0, 192, 79, 212, 48,
       200>>, BaseUUID}

\* the names: the prefixes of "testing" up to MaxName bytes
Names == {Cycle(<<116, 101, 115, 116, 105, 110, 103>>, n) : n \in 0..MaxName}

\* what a read of want bytes may return: every byte value at the offsets
\* in hot, a few at the others, and the reads that stop short
RandBase == <<63, 192, 15, 240, 85, 170, 0, 255, 1, 128, 127, 254, 64, 191, 16,
              239>>

RandReads(want, hot) ==
    {[want |-> want, n |-> want, data |-> Subst(Slice(RandBase, 0, want), i, c)] :
        i \in hot, c \in Byte}
    \cup {[want |-> want, n |-> want,
           data |-> Subst(Slice(RandBase, 0, want), i, c)] :
            i \in 0..(want - 1), c \in {0, 255}}
    \cup {[want |-> want, n |-> n, data |-> Slice(RandBase, 0, n)] :
            n \in {0, 1, want - 1}}

\* a few reads: one that succeeds and one that stops short
FewReads(want) ==
    {[want |-> want, n |-> n, data |-> Slice(RandBase, 0, n)] :
        n \in {want - 1, want}}

\* UnixMilli() values, as int64: 0, 1, 255, 256, 1730000000000 (2024),
\* 2^48 - 1, 2^48, 2^48 + 1, 2^63 - 1, -1, -2^63, -62135596800000 (year 1)
Millis ==
    {<<0, 0, 0, 0, 0, 0, 0, 0>>,
     <<0, 0, 0, 0, 0, 0, 0, 1>>,
     <<0, 0, 0, 0, 0, 0, 0, 255>>,
     <<0, 0, 0, 0, 0, 0, 1, 0>>,
     <<0, 0, 1, 146, 204, 9, 20, 0>>,
     <<0, 0, 255, 255, 255, 255, 255, 255>>,
     <<0, 1, 0, 0, 0, 0, 0, 0>>,
     <<0, 1, 0, 0, 0, 0, 0, 1>>,
     <<127, 255, 255, 255, 255, 255, 255, 255>>,
     <<255, 255, 255, 255, 255, 255, 255, 255>>,
     <<128, 0, 0, 0, 0, 0, 0, 0>>,
     <<255, 255, 199, 124, 237, 211, 40, 0>>}

\* the instants handed to NewV7
Times == {[ms |-> m, ns |-> n] : m \in Millis, n \in {0, 1, 999999}}

\* the instants tried with every read
FewTimes == {[ms |-> <<0, 0, 1, 146, 204, 9, 20, 0>>, ns |-> 0]}

----------------------------------------------------------------------------
(* The calling program *)

NoTime == TimeZero
NoRead == [want |-> 0, n |-> 0, data |-> <<>>]
NoHash == [alg |-> "", data |-> <<>>]
NoHin  == [namespace |-> ZeroUUID, name |-> <<>>]
NoSaved ==
    [op |-> "", namespace |-> ZeroUUID, name |-> <<>>, now |-> NoTime,
     val |-> ZeroUUID, between |-> FALSE]

\* saved, once a call other than the saved one has been made after it
Between(other) ==
    IF saved.op # "" /\ other THEN [saved EXCEPT !.between = TRUE] ELSE saved

Fresh ==
    /\ pc = "idle"
    /\ op = ""
    /\ u = ZeroUUID
    /\ u0 = ZeroUUID
    /\ buf = <<>>
    /\ enc = ""
    /\ arg = <<>>
    /\ err = "nil"
    /\ tm = NoTime
    /\ ok = FALSE
    /\ ver = 0
    /\ q = ""
    /\ now = NoTime
    /\ rnd = NoRead
    /\ hin = NoHin
    /\ h = NoHash
    /\ saved = NoSaved
    /\ dec = ""
    /\ styp = ""

\* the digest functions tried
HashSeeds == {<<0, 0>>, <<1, 15>>, <<16, 128>>, <<255, 63>>}

\* the codec and the accessors use no hash: one digest function will do
Init == Fresh /\ hseed = <<0, 0>>

\* the generators are tried with each digest function
GenInit == Fresh /\ hseed \in HashSeeds

\* the caller has an identifier x of ids at hand
GivenFrom(ids) ==
    /\ pc = "idle"
    /\ \E x \in ids : u' = x
    /\ pc' = "given"
    /\ UNCHANGED <<op, u0, buf, enc, arg, err, tm, ok, ver, q, now, rnd, hin, h,
                   saved, hseed, dec, styp>>

Given == GivenFrom(UUIDs)

\* the caller has received the bytes b of inputs, and its variable u holds r
InputFrom(inputs) ==
    /\ pc = "idle"
    /\ \E b \in inputs : buf' = b
    /\ \E r \in Receivers : u' = r
    /\ pc' = "loaded"
    /\ UNCHANGED <<op, u0, enc, arg, err, tm, ok, ver, q, now, rnd, hin, h, saved,
                   hseed, dec, styp>>

Input == InputFrom(Inputs)

\* an encoding call from a pc in from: buf, err = u.<name>(), on an identifier
\* the caller was given or has just decoded
Encoded(from, name, r) ==
    /\ pc \in from
    /\ pc = "decoded" => err = "nil"
    /\ op' = name
    /\ buf' = r.val
    /\ enc' = name
    /\ err' = r.err
    /\ pc' = IF pc = "given" THEN "encoded" ELSE "reencoded"
    /\ UNCHANGED <<u, u0, arg, tm, ok, ver, q, now, rnd, hin, h, saved, hseed,
                   dec, styp>>

\* Format, Bytes and String return no error
NoErr(bytes) == [val |-> bytes, err |-> "nil"]

CallFormat == Encoded({"given", "decoded"}, "Format", NoErr(Format(u)))

CallString == Encoded({"given"}, "String", NoErr(String(u)))

CallMarshalBinary == Encoded({"given"}, "MarshalBinary", MarshalBinary(u))

CallMarshalJSON == Encoded({"given"}, "MarshalJSON", MarshalJSON(u))

CallMarshalText == Encoded({"given"}, "MarshalText", MarshalText(u))

CallValue == Encoded({"given"}, "Value", Value(u))

\* a decoding call on a, of dynamic type typ when the callee takes any:
\* u, err = <name>(a), or err = u.<name>(a)
DecodedAs(name, typ, a, r) ==
    /\ pc \in {"loaded", "encoded"}
    /\ op' = name
    /\ dec' = name
    /\ styp' = typ
    /\ arg' = a
    /\ u0' = u
    /\ u' = r.val
    /\ err' = r.err
    /\ pc' = "decoded"
    /\ UNCHANGED <<buf, enc, tm, ok, ver, q, now, rnd, hin, h, saved, hseed>>

Decoded(name, r) == DecodedAs(name, "", buf, r)

CallParse == Decoded("Parse", Parse(buf))

CallParseString == Decoded("ParseString", ParseString(buf))

CallUnmarshalBinary == Decoded("UnmarshalBinary", UnmarshalBinary(u, buf))

CallUnmarshalJSON == Decoded("UnmarshalJSON", UnmarshalJSON(u, buf))

CallUnmarshalText == Decoded("UnmarshalText", UnmarshalText(u, buf))

\* err = u.Scan(src), src being buf as a []byte or as a string, or a value of
\* another type
CallScan ==
    \E t \in SrcTypes :
        DecodedAs("Scan", t, SrcOf(t, buf).val, Scan(u, SrcOf(t, buf)))

\* the identifier in u is one the caller may query
HasUUID ==
    \/ pc \in {"given", "generated"}
    \/ pc = "decoded" /\ err = "nil"

\* tm, ok = u.Time()
CallTime ==
    /\ HasUUID
    /\ tm' = Time(u).tm
    /\ ok' = Time(u).ok
    /\ q' = "Time"
    /\ pc' = "queried"
    /\ UNCHANGED <<op, u, u0, buf, enc, arg, err, ver, now, rnd, hin, h,
                   saved, hseed, dec, styp>>

\* ver = u.Version()
CallVersion ==
    /\ HasUUID
    /\ ver' = Version(u)
    /\ q' = "Version"
    /\ pc' = "queried"
    /\ UNCHANGED <<op, u, u0, buf, enc, arg, err, tm, ok, now, rnd, hin, h,
                   saved, hseed, dec, styp>>

\* the caller drops what it holds and starts over
Return ==
    /\ pc # "idle"
    /\ pc' = "idle"
    /\ op' = ""
    /\ u' = ZeroUUID
    /\ u0' = ZeroUUID
    /\ buf' = <<>>
    /\ enc' = ""
    /\ arg' = <<>>
    /\ err' = "nil"
    /\ tm' = NoTime
    /\ ok' = FALSE
    /\ ver' = 0
    /\ q' = ""
    /\ now' = NoTime
    /\ rnd' = NoRead
    /\ hin' = NoHin
    /\ h' = NoHash
    /\ saved' = NoSaved
    /\ dec' = ""
    /\ styp' = ""
    /\ UNCHANGED hseed

Next ==
    \/ Given
    \/ Input
    \/ CallFormat
    \/ CallString
    \/ CallMarshalBinary
    \/ CallParse
    \/ CallParseString
    \/ CallUnmarshalBinary
    \/ CallUnmarshalJSON
    \/ CallTime
    \/ CallVersion
    \/ Return

Spec == Init /\ [][Next]_vars

\* every codec call and adapter, on the sampled identifiers and inputs
AdapterNext ==
    \/ GivenFrom(FewUUIDs)
    \/ InputFrom(FewInputs)
    \/ CallFormat
    \/ CallString
    \/ CallMarshalBinary
    \/ CallMarshalJSON
    \/ CallMarshalText
    \/ CallValue
    \/ CallParse
    \/ CallParseString
    \/ CallUnmarshalBinary
    \/ CallUnmarshalJSON
    \/ CallUnmarshalText
    \/ CallScan
    \/ Return

AdapterSpec == Init /\ [][AdapterNext]_vars

\* a call of a generator from a pc in from: u, err = <name>(...)
Generated(from, name, r) ==
    /\ pc \in from
    /\ op' = name
    /\ u' = r.val
    /\ err' = r.err
    /\ pc' = "generated"
    /\ UNCHANGED <<u0, buf, enc, arg, tm, ok, ver, q, hseed, dec, styp>>

\* a call of NewV3 / NewV5: the hash object it used is left behind, and the
\* first such call of the run is kept to compare later ones with
Hashed(from, name, namespace, nm, r) ==
    /\ Generated(from, name, [val |-> r.val, err |-> "nil"])
    /\ hin' = [namespace |-> namespace, name |-> nm]
    /\ h' = r.h
    /\ saved' = IF saved.op = ""
                THEN [op |-> name, namespace |-> namespace, name |-> nm,
                      now |-> NoTime, val |-> r.val, between |-> FALSE]
                ELSE Between(<<name, namespace, nm>>
                               # <<saved.op, saved.namespace, saved.name>>)
    /\ now' = NoTime
    /\ rnd' = NoRead

CallNewV3(from) ==
    \E n \in Namespaces, b \in Names : Hashed(from, "NewV3", n, b, NewV3(n, b))

CallNewV5(from) ==
    \E n \in Namespaces, b \in Names : Hashed(from, "NewV5", n, b, NewV5(n, b))

CallNewV4(from, reads) ==
    \E r \in reads :
        /\ Generated(from, "NewV4", NewV4(r))
        /\ rnd' = [r EXCEPT !.want = NewV4(r).want]
        /\ now' = NoTime
        /\ hin' = NoHin
        /\ saved' = Between(TRUE)
        /\ UNCHANGED h

CallNewV7(from, calls) ==
    \E c \in calls :
        /\ Generated(from, "NewV7", NewV7(c[1], c[2]))
        /\ now' = c[1]
        /\ rnd' = [c[2] EXCEPT !.want = NewV7(c[1], c[2]).want]
        /\ hin' = NoHin
        /\ saved' = Between(TRUE)
        /\ UNCHANGED h

\* a call of NewV7 by a caller that has just called it: the caller keeps the
\* identifier it got, if it got one, with the instant it was made at
CallNewV7After(calls) ==
    \E c \in calls :
        /\ op = "NewV7"
        /\ Generated({"generated"}, "NewV7", NewV7(c[1], c[2]))
        /\ now' = c[1]
        /\ rnd' = [c[2] EXCEPT !.want = NewV7(c[1], c[2]).want]
        /\ hin' = NoHin
        /\ saved' = IF err = "nil"
                    THEN [NoSaved EXCEPT !.op = "NewV7", !.now = now, !.val = u]
                    ELSE saved
        /\ UNCHANGED h

\* the instants and reads NewV7 is tried on: every instant with a few reads,
\* and a few instants with every read
V7Calls ==
    (Times \X FewReads(10)) \cup (FewTimes \X RandReads(10, {0, 2}))

\* one generator call at a time, each by a caller that starts over
GenNext ==
    \/ CallNewV3({"idle"})
    \/ CallNewV4({"idle"}, RandReads(16, {6, 8}))
    \/ CallNewV5({"idle"})
    \/ CallNewV7({"idle"}, V7Calls)
    \/ CallTime
    \/ CallVersion
    \/ Return

GenSpec == GenInit /\ [][GenNext]_vars

\* runs of generator calls, one after the other, by one caller
HashNext ==
    \/ CallNewV3({"idle", "generated"})
    \/ CallNewV4({"idle", "generated"}, FewReads(16))
    \/ CallNewV5({"idle", "generated"})
    \/ CallNewV7({"idle", "generated"}, FewTimes \X FewReads(10))

HashSpec == GenInit /\ [][HashNext]_vars

\* UnixMilli() values to order: 0, 1, 255, 256, 2^40, 1730000000000, 2^48 - 1
\* and, out of range, 2^48 and -1
OrderMillis ==
    {<<0, 0, 0, 0, 0, 0, 0, 0>>,
     <<0, 0, 0, 0, 0, 0, 0, 1>>,
     <<0, 0, 0, 0, 0, 0, 0, 255>>,
     <<0, 0, 0, 0, 0, 0, 1, 0>>,
     <<0, 0, 1, 0, 0, 0, 0, 0>>,
     <<0, 0, 1, 146, 204, 9, 20, 0>>,
     <<0, 0, 255, 255, 255, 255, 255, 255>>,
     <<0, 1, 0, 0, 0, 0, 0, 0>>,
     <<255, 255, 255, 255, 255, 255, 255, 255>>}

\* reads of ten bytes: all zeroes, all 0xff, mixed, and one that stops short
OrderReads ==
    {[want |-> 10, n |-> 10, data |-> [k \in 1..10 |-> c]] : c \in {0, 255}}
        \cup FewReads(10)

OrderCalls == {[ms |-> m, ns |-> 0] : m \in OrderMillis} \X OrderReads

\* calls of NewV7 one after the other by one caller, which keeps the
\* identifier of the call before
OrderNext ==
    \/ CallNewV7({"idle"}, OrderCalls)
    \/ CallNewV7After(OrderCalls)

OrderSpec == Init /\ [][OrderNext]_vars

----------------------------------------------------------------------------
(* The properties *)

\* a decoding call has returned
Returned(name) == pc = "decoded" /\ op = name

\* c is a hex digit, of either case
IsHexDigit(c) ==
    \/ c \in 48..57
    \/ c \in 97..102
    \/ c \in 65..70

\* the value of the hex digit c
HexValue(c) ==
    CASE c \in 48..57  -> c - 48
      [] c \in 97..102 -> c - 87
      [] c \in 65..70  -> c - 55

\* the lowercase hex digit of the nibble n
LowerHexDigit(n) == IF n < 10 THEN 48 + n ELSE 87 + n

\* the offset in the 36-byte text of the first digit of byte i
TextOffset(i) ==
    CASE i \in 0..3   -> 2 * i
      [] i \in 4..5   -> 2 * i + 1
      [] i \in 6..7   -> 2 * i + 2
      [] i \in 8..9   -> 2 * i + 3
      [] i \in 10..15 -> 2 * i + 4

\* C1: parsing the text of an identifier gives the identifier back, with no
\* error: Parse(Format(u)) = u and ParseString(String(u)) = u, whatever the
\* bytes of u are.
C1_ParseFormatRoundTrip ==
    /\ (Returned("Parse") /\ enc = "Format") => (err = "nil" /\ u = u0)
    /\ (Returned("ParseString") /\ enc = "String") => (err = "nil" /\ u = u0)

\* an identifier whose version nibble and variant bits are no RFC 4122 tags
\* has been formatted and parsed back
C1_Witness ==
    /\ Returned("Parse")
    /\ enc = "Format"
    /\ u0 = [k \in 1..16 |-> 255]
    /\ u = u0
    /\ err = "nil"

\* C2: Format(u) is 36 bytes, with '-' at the offsets 8, 13, 18 and 23 and,
\* for each byte i of u, its two lowercase hex digits, high nibble first, at
\* the offsets TextOffset(i) and TextOffset(i) + 1; it returns no error.
C2_FormatShape ==
    (pc = "encoded" /\ op = "Format") =>
        /\ err = "nil"
        /\ Len(buf) = 36
        /\ \A i \in DashOffsets : At(buf, i) = dash
        /\ \A i \in 0..15 :
            /\ At(buf, TextOffset(i)) = LowerHexDigit(At(u, i) \div 16)
            /\ At(buf, TextOffset(i) + 1) = LowerHexDigit(At(u, i) % 16)

\* the identifier of the tests has been formatted to its text
C2_Witness ==
    /\ pc = "encoded"
    /\ op = "Format"
    /\ u = BaseUUID
    /\ buf = BaseText

\* b is a well-formed dashed text: hyphens at the four offsets, hex digits
\* everywhere else
WellFormed36(b) ==
    \A i \in 0..35 :
        IF i \in DashOffsets THEN At(b, i) = dash ELSE IsHexDigit(At(b, i))

\* C3: Parse of a 36-byte input succeeds exactly when the input is a
\* well-formed dashed text; then byte i of the result is the value of the hex
\* pair at TextOffset(i); otherwise the error is ErrInvalidUUID.
C3_Parse36 ==
    (Returned("Parse") /\ Len(arg) = 36) =>
        /\ (err = "nil") <=> WellFormed36(arg)
        /\ err \in {"nil", "ErrInvalidUUID"}
        /\ err = "nil" =>
            \A i \in 0..15 :
                At(u, i) = HexValue(At(arg, TextOffset(i))) * 16
                             + HexValue(At(arg, TextOffset(i) + 1))

\* a text whose last hyphen is a hex digit, and nothing else wrong, was refused
C3_Witness ==
    /\ Returned("Parse")
    /\ Len(arg) = 36
    /\ IsHexDigit(At(arg, 23))
    /\ \A i \in 0..35 : i # 23 => At(arg, i) = At(BaseText, i)
    /\ err = "ErrInvalidUUID"

\* C4: Parse of a 32-byte input succeeds exactly when all 32 bytes are hex
\* digits; then byte i of the result is the value of the pair b[2i], b[2i+1];
\* otherwise the error is ErrInvalidUUID.
C4_Parse32 ==
    (Returned("Parse") /\ Len(arg) = 32) =>
        /\ (err = "nil") <=> (\A i \in 0..31 : IsHexDigit(At(arg, i)))
        /\ err \in {"nil", "ErrInvalidUUID"}
        /\ err = "nil" =>
            \A i \in 0..15 :
                At(u, i) = HexValue(At(arg, 2 * i)) * 16
                             + HexValue(At(arg, 2 * i + 1))

\* 32 bytes with a hyphen among the hex digits were refused
C4_Witness ==
    /\ Returned("Parse")
    /\ Len(arg) = 32
    /\ \E i \in 0..31 :
        /\ At(arg, i) = dash
        /\ \A j \in 0..31 : j # i => IsHexDigit(At(arg, j))
    /\ err = "ErrInvalidUUID"

\* C5: Parse and UnmarshalBinary of a 16-byte input return no error and give
\* the identifier whose 16 bytes are the input's; so both undo MarshalBinary.
C5_Raw16 ==
    /\ ((Returned("Parse") \/ Returned("UnmarshalBinary")) /\ Len(arg) = 16) =>
            (err = "nil" /\ u = arg)
    /\ ((Returned("Parse") \/ Returned("UnmarshalBinary"))
            /\ enc = "MarshalBinary") =>
            (err = "nil" /\ u = u0 /\ Len(arg) = 16)

\* 16 bytes of ASCII hex digits, whose variant bits are 00, were unmarshaled
\* unchanged into a receiver that held something else
C5_Witness ==
    /\ Returned("UnmarshalBinary")
    /\ arg = Cycle(BaseHex, 16)
    /\ u0 = BaseUUID
    /\ u = arg
    /\ err = "nil"

\* C6: Parse and ParseString refuse every input whose length is not 16, 32
\* or 36, UnmarshalBinary every input whose length is not 16 and
\* UnmarshalJSON every input whose length is not 38, all with ErrInvalidUUID.
C6_LengthGate ==
    /\ ((Returned("Parse") \/ Returned("ParseString"))
            /\ Len(arg) \notin {16, 32, 36}) => err = "ErrInvalidUUID"
    /\ (Returned("UnmarshalBinary") /\ Len(arg) # 16) => err = "ErrInvalidUUID"
    /\ (Returned("UnmarshalJSON") /\ Len(arg) # 38) => err = "ErrInvalidUUID"

\* UnmarshalBinary refused the 36-byte text that Parse accepts
C6_Witness ==
    /\ Returned("UnmarshalBinary")
    /\ arg = BaseText
    /\ err = "ErrInvalidUUID"

\* a generator has returned, and the caller may since have queried the result
Made(name) == pc \in {"generated", "queried"} /\ op = name

\* the version a generator tags its identifiers with
VersionOf(name) ==
    CASE name = "NewV3" -> 3
      [] name = "NewV4" -> 4
      [] name = "NewV5" -> 5
      [] name = "NewV7" -> 7

\* C7: an identifier a generator returns with no error has the generator's
\* version in the high nibble of byte 6, which Version() returns, and binary
\* 10 in the top two bits of byte 8.
C7_VersionAndVariant ==
    \A name \in {"NewV3", "NewV4", "NewV5", "NewV7"} :
        (Made(name) /\ err = "nil") =>
            /\ At(u, 6) \div 16 = VersionOf(name)
            /\ At(u, 8) \div 64 = 2
            /\ q = "Version" => ver = VersionOf(name)

\* NewV4 read 0xff for byte 6 and Version() of its result returned 4
C7_Witness ==
    /\ Made("NewV4")
    /\ err = "nil"
    /\ At(rnd.data, 6) = 255
    /\ q = "Version"
    /\ ver = 4

\* C8: a call of NewV3 or NewV5 with the namespace and name of an earlier call
\* of the same generator returns the identifier that call returned, with no
\* error, whatever calls were made in between.
C8_Deterministic ==
    \A name \in {"NewV3", "NewV5"} :
        (Made(name) /\ saved.op = name /\ saved.namespace = hin.namespace
            /\ saved.name = hin.name) =>
                (u = saved.val /\ err = "nil")

\* NewV5 was called again with the arguments of the first call, after other
\* calls, and returned the same identifier
C8_Witness ==
    /\ Made("NewV5")
    /\ saved.op = "NewV5"
    /\ saved.between
    /\ saved.namespace = hin.namespace
    /\ saved.name = hin.name
    /\ Len(hin.name) > 0
    /\ u = saved.val

\* t truncated to whole milliseconds
Truncated(t) == [ms |-> t.ms, ns |-> 0]

\* the UnixMilli() of t is in 0 .. 2^48 - 1: the two high bytes are zero
Fits48(t) == At(t.ms, 0) = 0 /\ At(t.ms, 1) = 0

\* C9, as stated: Time() of an identifier NewV7(t) returned with no error is
\* (t truncated to milliseconds, true), for every t.
C9_TimeFidelityAnyTime ==
    (Made("NewV7") /\ err = "nil" /\ q = "Time") =>
        (ok /\ tm = Truncated(now))

\* C9, amended: Time() of an identifier NewV7(t) returned with no error is
\* (t truncated to milliseconds, true) for every t whose milliseconds since
\* the Unix epoch are in 0 .. 2^48 - 1.
C9_TimeFidelity ==
    (Made("NewV7") /\ err = "nil" /\ q = "Time" /\ Fits48(now)) =>
        (ok /\ tm = Truncated(now))

\* the last nanosecond of the last millisecond that fits 48 bits came back
\* truncated
C9_Witness ==
    /\ Made("NewV7")
    /\ err = "nil"
    /\ q = "Time"
    /\ now = [ms |-> <<0, 0, 255, 255, 255, 255, 255, 255>>, ns |-> 999999]
    /\ tm = [ms |-> <<0, 0, 255, 255, 255, 255, 255, 255>>, ns |-> 0]
    /\ ok

\* C10: Time() returns true exactly when the high nibble of byte 6 is 7; when
\* it is not, the time returned is the zero time; when it is, the time is the
\* big-endian integer of bytes 0..5 in milliseconds since the Unix epoch.
C10_TimeOnlyOfV7 ==
    q = "Time" =>
        /\ ok <=> (At(u, 6) \div 16 = 7)
        /\ ~ok => tm = TimeZero
        /\ ok =>
            /\ tm.ns = 0
            /\ At(tm.ms, 0) = 0
            /\ At(tm.ms, 1) = 0
            /\ \A i \in 0..5 : At(tm.ms, i + 2) = At(u, i)

\* Time() of a version 7 identifier whose variant bits are 11 returned its
\* timestamp
C10_Witness ==
    /\ q = "Time"
    /\ u = Subst(OddV7, 0, 255)
    /\ At(u, 8) \div 64 = 3
    /\ ok
    /\ tm = [ms |-> <<0, 0, 255, 146, 204, 9, 20, 0>>, ns |-> 0]

\* the errors a decoding operation may return
DecodeErrors == {"nil", "ErrInvalidUUID"}

\* the decoding operations
DecodeOps ==
    {"Parse", "ParseString", "UnmarshalBinary", "UnmarshalJSON",
     "UnmarshalText", "Scan"}

\* C11: on every input and every receiver, each decoding operation returns,
\* and what it returns is nil or ErrInvalidUUID: before the call each of them
\* has a result on the caller's bytes, and after it err is one of the two.
C11_OnlyInvalidUUID ==
    /\ pc \in {"loaded", "encoded"} =>
        /\ Parse(buf).err \in DecodeErrors
        /\ ParseString(buf).err \in DecodeErrors
        /\ UnmarshalBinary(u, buf).err \in DecodeErrors
        /\ UnmarshalJSON(u, buf).err \in DecodeErrors
        /\ UnmarshalText(u, buf).err \in DecodeErrors
        /\ \A t \in SrcTypes : Scan(u, SrcOf(t, buf)).err \in DecodeErrors
    /\ (pc = "decoded" /\ op \in DecodeOps) => err \in DecodeErrors

\* 32 bytes ending in a byte that is no hex digit were refused by Scan
C11_Witness ==
    /\ Returned("Scan")
    /\ styp = "string"
    /\ Len(arg) = 32
    /\ ~IsHexDigit(At(arg, 31))
    /\ err = "ErrInvalidUUID"

\* an encoding call has returned buf
Wrote(name) == pc = "encoded" /\ enc = name

\* b is 38 bytes: a quote, a well-formed dashed text, a quote
WellFormedJSON(b) ==
    /\ Len(b) = 38
    /\ At(b, 0) = quote
    /\ At(b, 37) = quote
    /\ WellFormed36(Slice(b, 1, 37))

\* C12: MarshalJSON returns 38 bytes, a quote, Format(u) and a quote, and no
\* error.  UnmarshalJSON succeeds exactly on 38 bytes that are a quote, a
\* well-formed 36-byte dashed text and a quote, and then stores the
\* identifier the text spells; otherwise it returns ErrInvalidUUID.  On the
\* bytes MarshalJSON returned for u it stores u.
C12_JSON ==
    /\ Wrote("MarshalJSON") =>
        /\ err = "nil"
        /\ Len(buf) = 38
        /\ At(buf, 0) = quote
        /\ At(buf, 37) = quote
        /\ Slice(buf, 1, 37) = Format(u)
    /\ Returned("UnmarshalJSON") =>
        /\ (err = "nil") <=> WellFormedJSON(arg)
        /\ err # "nil" => err = "ErrInvalidUUID"
        /\ err = "nil" =>
            \A i \in 0..15 :
                At(u, i) = HexValue(At(arg, 1 + TextOffset(i))) * 16
                             + HexValue(At(arg, 2 + TextOffset(i)))
        /\ enc = "MarshalJSON" => (err = "nil" /\ u = u0)

\* the JSON text MarshalJSON returned for an identifier ending in 0xab was
\* decoded into that identifier
C12_Witness ==
    /\ Returned("UnmarshalJSON")
    /\ enc = "MarshalJSON"
    /\ arg = buf
    /\ err = "nil"
    /\ u = u0
    /\ At(u, 15) = 171

\* bytes 6..15 of the identifier are the ten bytes read, but for the high
\* nibble of byte 6 and the top two bits of byte 8
RandomTail ==
    /\ rnd.n = 10
    /\ \A i \in 6..15 : i \notin {6, 8} => At(u, i) = At(rnd.data, i - 6)
    /\ At(u, 6) % 16 = At(rnd.data, 0) % 16
    /\ At(u, 6) \div 16 = 7
    /\ At(u, 8) % 64 = At(rnd.data, 2) % 64
    /\ At(u, 8) \div 64 = 2

\* C13, as stated: for every t for which NewV7(t) succeeds, t's milliseconds
\* since the Unix epoch are the 48-bit unsigned big-endian integer in bytes
\* 0..5, and bytes 6..15 are the ten random bytes with only the high nibble
\* of byte 6 and the top two bits of byte 8 replaced.
C13_V7LayoutAnyTime ==
    (Made("NewV7") /\ err = "nil") =>
        /\ now.ms = <<0, 0>> \o Slice(u, 0, 6)
        /\ RandomTail

\* C13, amended: for every t for which NewV7(t) succeeds, bytes 0..5 are the
\* low 48 bits of t's milliseconds since the Unix epoch, most significant
\* byte first (the milliseconds themselves when they are in 0 .. 2^48 - 1),
\* untouched by the random fill and the overlay, and bytes 6..15 are the ten
\* random bytes with only the high nibble of byte 6 and the top two bits of
\* byte 8 replaced.
C13_V7Layout ==
    (Made("NewV7") /\ err = "nil") =>
        /\ Slice(u, 0, 6) = Slice(now.ms, 2, 8)
        /\ Fits48(now) => now.ms = <<0, 0>> \o Slice(u, 0, 6)
        /\ RandomTail

\* an identifier of 2024 was made from ten bytes read whose third byte has
\* all its bits set
C13_Witness ==
    /\ Made("NewV7")
    /\ err = "nil"
    /\ now.ms = <<0, 0, 1, 146, 204, 9, 20, 0>>
    /\ At(rnd.data, 2) = 255
    /\ u = <<1, 146, 204, 9, 20, 0, 127, 192, 191, 240, 85, 170, 0, 255, 1,
             128>>

\* the call stored what the decoder p returned for arg, or failed as p does
Follows(p) ==
    /\ err = p.err
    /\ err = "nil" => u = p.val

\* C14: MarshalText and Value return the 36 bytes of Format(u) and no error.
\* UnmarshalText(b) and Scan of the bytes b succeed exactly when Parse(b)
\* does and store what Parse returns; Scan of a string does so with
\* ParseString; Scan of a value of any other type returns ErrInvalidUUID.
\* Scan of what Value(u) or String(u) returned stores u.
C14_TextAndScalar ==
    /\ (Wrote("MarshalText") \/ Wrote("Value")) =>
        /\ err = "nil"
        /\ Len(buf) = 36
        /\ buf = Format(u)
    /\ Returned("UnmarshalText") => Follows(Parse(arg))
    /\ (Returned("Scan") /\ styp = "[]byte") => Follows(Parse(arg))
    /\ (Returned("Scan") /\ styp = "string") => Follows(ParseString(arg))
    /\ (Returned("Scan") /\ styp \notin {"[]byte", "string"}) =>
        err = "ErrInvalidUUID"
    /\ (Returned("Scan") /\ enc = "Value" /\ styp = "[]byte") =>
        (err = "nil" /\ u = u0)
    /\ (Returned("Scan") /\ enc = "String" /\ styp = "string") =>
        (err = "nil" /\ u = u0)

\* Scan of what Value returned for an identifier starting with 0xab stored
\* that identifier
C14_Witness ==
    /\ Returned("Scan")
    /\ enc = "Value"
    /\ styp = "[]byte"
    /\ arg = buf
    /\ err = "nil"
    /\ u = u0
    /\ At(u, 0) = 171

\* the generator asked the random source once, for want bytes, and returned
\* the error of that read: nil exactly when all the bytes came
SurfacesRead(want) ==
    /\ rnd.want = want
    /\ (err = "nil") <=> (rnd.n = want)
    /\ err # "nil" => err = "ErrRand"

\* the bytes of u from offset off on are the bytes read, but for the high
\* nibble of byte 6 and the top two bits of byte 8
FromRead(off) ==
    /\ \A i \in off..15 : i \notin {6, 8} => At(u, i) = At(rnd.data, i - off)
    /\ At(u, 6) % 16 = At(rnd.data, 6 - off) % 16
    /\ At(u, 8) % 64 = At(rnd.data, 8 - off) % 64

\* C15: NewV4 asks the random source for 16 bytes and NewV7 for 10, once; a
\* read that fails or stops short makes the call return that error, and a
\* call that returns nil has every random byte from that read.  No other
\* call of NewV4 / NewV7 fails, and NewV3 and NewV5 return no error.
C15_RandomFailure ==
    /\ Made("NewV4") =>
        /\ SurfacesRead(16)
        /\ err = "nil" => FromRead(0)
    /\ Made("NewV7") =>
        /\ SurfacesRead(10)
        /\ err = "nil" => FromRead(6)
    /\ (Made("NewV3") \/ Made("NewV5")) => err = "nil"

\* NewV7 returned the error of a read that stopped one byte short
C15_Witness ==
    /\ Made("NewV7")
    /\ rnd.want = 10
    /\ rnd.n = 9
    /\ err = "ErrRand"

\* the identifier a valid input b spells: its 16 bytes, its 16 hex pairs, or
\* the 16 hex pairs of its dashed text
Spelled(b) ==
    [k \in 1..16 |->
        CASE Len(b) = 16 -> b[k]
          [] Len(b) = 32 -> HexValue(At(b, 2 * (k - 1))) * 16
                              + HexValue(At(b, 2 * (k - 1) + 1))
          [] Len(b) = 36 -> HexValue(At(b, TextOffset(k - 1))) * 16
                              + HexValue(At(b, TextOffset(k - 1) + 1))]

\* the operations that decode into a receiver
ReceiverOps == {"UnmarshalBinary", "UnmarshalJSON", "UnmarshalText", "Scan"}

\* C16: after UnmarshalBinary, UnmarshalJSON, UnmarshalText or Scan on a
\* receiver holding u0, the receiver still holds u0 in all 16 bytes if the
\* call returned an error, however late the input went wrong, and holds the
\* identifier the input spells in all 16 bytes if it returned nil.
C16_AllOrNothing ==
    (pc = "decoded" /\ op \in ReceiverOps) =>
        /\ err # "nil" => u = u0
        /\ err = "nil" =>
            u = Spelled(IF op = "UnmarshalJSON" THEN Slice(arg, 1, 37) ELSE arg)

\* UnmarshalText of a text whose last byte is no hex digit left a receiver
\* that held the identifier of the tests as it was
C16_Witness ==
    /\ Returned("UnmarshalText")
    /\ arg = Subst(BaseText, 35, 103)
    /\ u0 = BaseUUID
    /\ err = "ErrInvalidUUID"
    /\ u = BaseUUID

\* the digest, by the algorithm alg, of the namespace followed by the name
\* handed to the last call
Digest(alg) == Sum([alg |-> alg, data |-> hin.namespace \o hin.name])

\* u is the first 16 bytes of d, but for the high nibble of byte 6 and the
\* top two bits of byte 8
TaggedFrom(d) ==
    /\ \A i \in 0..15 : i \notin {6, 8} => At(u, i) = At(d, i)
    /\ At(u, 6) % 16 = At(d, 6) % 16
    /\ At(u, 8) % 64 = At(d, 8) % 64

\* C17: NewV3 returns the first 16 bytes of the MD5 digest of the 16
\* namespace bytes followed by the name, and NewV5 the first 16 bytes of the
\* 20-byte SHA-1 digest of the same, with only the high nibble of byte 6 and
\* the top two bits of byte 8 replaced; what NewV4 returns with no error is
\* the 16 bytes read, with only those six bits replaced.
C17_SixBitsOnly ==
    /\ Made("NewV3") => (Len(Digest("md5")) = 16 /\ TaggedFrom(Digest("md5")))
    /\ Made("NewV5") => (Len(Digest("sha1")) = 20 /\ TaggedFrom(Digest("sha1")))
    /\ (Made("NewV4") /\ err = "nil") => TaggedFrom(rnd.data)

\* NewV5 of a two-byte name returned a digest whose bytes 6 and 8 it had to
\* change
C17_Witness ==
    /\ Made("NewV5")
    /\ Len(hin.name) = 2
    /\ At(u, 6) # At(Digest("sha1"), 6)
    /\ At(u, 8) # At(Digest("sha1"), 8)
    /\ TaggedFrom(Digest("sha1"))

\* a comes before b, byte by byte, a and b being of one length
LexLess(a, b) ==
    \E k \in 1..Len(a) :
        /\ a[k] < b[k]
        /\ \A j \in 1..(k - 1) : a[j] = b[j]

\* two calls of NewV7 have returned identifiers, the first at an instant of
\* fewer milliseconds than the second, both in 0 .. 2^48 - 1
EarlierThenLater ==
    /\ Made("NewV7")
    /\ err = "nil"
    /\ saved.op = "NewV7"
    /\ Fits48(saved.now)
    /\ Fits48(now)
    /\ LexLess(saved.now.ms, now.ms)

\* C18: of two identifiers NewV7 returned with no error, for instants whose
\* milliseconds are in 0 .. 2^48 - 1, the one of fewer milliseconds is the
\* smaller byte by byte, and its Format text is the smaller byte by byte,
\* whatever bytes were read and whichever call came first.
C18_TimeOrdered ==
    /\ EarlierThenLater =>
        /\ LexLess(saved.val, u)
        /\ LexLess(Format(saved.val), Format(u))
    /\ (/\ Made("NewV7")
        /\ err = "nil"
        /\ saved.op = "NewV7"
        /\ Fits48(saved.now)
        /\ Fits48(now)
        /\ LexLess(now.ms, saved.now.ms)) =>
            /\ LexLess(u, saved.val)
            /\ LexLess(Format(u), Format(saved.val))

\* the identifier of millisecond 255, made of bytes read all 0xff, came
\* before that of millisecond 256, made of bytes read all zero
C18_Witness ==
    /\ EarlierThenLater
    /\ saved.now.ms = <<0, 0, 0, 0, 0, 0, 0, 255>>
    /\ now.ms = <<0, 0, 0, 0, 0, 0, 1, 0>>
    /\ At(saved.val, 15) = 255
    /\ At(u, 15) = 0
    /\ LexLess(saved.val, u)
    /\ LexLess(Format(saved.val), Format(u))

\* b with its letters A-Z in lower case
Lower(b) == [k \in 1..Len(b) |-> IF b[k] \in 65..90 THEN b[k] + 32 ELSE b[k]]

\* b is a canonical text: well-formed, its letters in lower case
Canonical(b) == Len(b) = 36 /\ WellFormed36(b) /\ Lower(b) = b

\* the 32 bytes s with hyphens put in at the offsets 8, 13, 18 and 23
Hyphenated(s) ==
    Slice(s, 0, 8) \o <<dash>> \o Slice(s, 8, 12) \o <<dash>>
        \o Slice(s, 12, 16) \o <<dash>> \o Slice(s, 16, 20) \o <<dash>>
        \o Slice(s, 20, 32)

\* Format has returned buf for the identifier Parse returned for arg
Reformatted == pc = "reencoded" /\ dec = "Parse" /\ enc = "Format"

\* C19: Parse succeeds on every canonical lowercase 36-byte text, and Format
\* of what it returns is that text.  Parse takes a text with digits A-F as it
\* takes the text in lower case and returns the same identifier.  Format of
\* what Parse returns for a 36-byte text is the text in lower case, and for
\* 32 hex digits it is the digits in lower case with hyphens put in at the
\* offsets 8, 13, 18 and 23.
C19_FormatAfterParse ==
    /\ (Returned("Parse") /\ Canonical(arg)) => err = "nil"
    /\ (Returned("Parse") /\ Len(arg) \in {32, 36}) =>
        /\ (err = "nil") <=> (Parse(Lower(arg)).err = "nil")
        /\ err = "nil" => u = Parse(Lower(arg)).val
    /\ (Reformatted /\ Canonical(arg)) => buf = arg
    /\ (Reformatted /\ Len(arg) = 36) => buf = Lower(arg)
    /\ (Reformatted /\ Len(arg) = 32) => buf = Hyphenated(Lower(arg))

\* the text of the tests in upper case came back from Format in lower case
C19_Witness ==
    /\ Reformatted
    /\ arg = UpperText
    /\ u = BaseUUID
    /\ buf = BaseText

====
